---- MODULE Spec2Model ----
(***************************************************************************)
(* Model of the recipe backend: the two server revisions of the repository *)
(* (src/index.js and src/unnamed/part_000), their two mongoose collections *)
(* (User, SavedRecipe) and the HTTP handlers that read and write them.     *)
(* Every `await` of a handler on a store call is a point where another     *)
(* request may run; the synchronous code between two awaits is one step.   *)
(***************************************************************************)
EXTENDS Integers, Sequences, FiniteSets, TLC

\* ---------------------------------------------------------------- bounds
MaxUsers == 2        \* users ever registered
MaxDocs == 2         \* SavedRecipe records ever created
MaxIds == 2          \* length of the id list of a reorder request
MaxInflight == 2     \* requests suspended on an await at the same time

Slots == 1..MaxInflight

\* ---------------------------------------------------------------- inputs
Variants == {"index.js", "part_000"}

Usernames == {"a", "b"}
Emails == {"a@x.com", "b@x.com"}
Passwords == {"pw", "pw2"}
\* a body field that is absent (undefined) or empty is falsy in the handlers
Missing == ""

Soup == [recipeId |-> "55", title |-> "Soup", image |-> "img.jpg", category |-> "lunch"]
Eggs == [recipeId |-> "56", title |-> "Eggs", image |-> "egg.jpg", category |-> "breakfast"]
Tea == [recipeId |-> "57", title |-> "Tea", image |-> "tea.jpg", category |-> "brunch"]
Payloads ==
  { Soup, Eggs, Tea,
    [recipeId |-> "58", title |-> Missing, image |-> "x.jpg",  category |-> "dinner"] }

RECURSIVE SeqsUpTo(_, _)
SeqsUpTo(S, n) ==
  IF n = 0 THEN { <<>> }
  ELSE LET shorter == SeqsUpTo(S, n - 1)
       IN  shorter \cup { Append(q, x) : q \in { r \in shorter : Len(r) = n - 1 }, x \in S }

\* ---------------------------------------------------------------- state
VARIABLES
  variant,    \* which server file is running
  users,      \* User collection, in insertion order; _id is the index
  recipes,    \* SavedRecipe collection, in insertion order
  made,       \* number of SavedRecipe records ever created (ids are not reused)
  inflight,   \* per slot, the request suspended on an await
  issued,     \* ids of the users for whom login has signed a token
  lastResp,   \* the response sent by the last step, NoResp if it sent none
  regOK,      \* history: the registrations answered 201
  kept,       \* history: per user, the records saved (201) and not removed (200) by that user
  hist        \* history: the id lists of the reorder requests that overlap in time

vars == <<variant, users, recipes, made, inflight, issued, lastResp, regOK, kept, hist>>
stores == <<users, recipes, made>>
history == <<regOK, kept, hist>>

\* ------------------------------------------------- bcrypt and jsonwebtoken
hash(password) == <<"$2b$10$", password>>
compare(password, hashed) == hashed = hash(password)

sign(userId) == [userId |-> userId, st |-> "ok"]
verify(token) == token.st = "ok"

\* --------------------------------------------------- Authorization header
EmptyTok == [userId |-> 0, st |-> "empty"]
Garbage == [userId |-> 0, st |-> "malformed"]
NoHeader == [present |-> FALSE, bearer |-> FALSE, tok |-> EmptyTok]
Bearer(t) == [present |-> TRUE, bearer |-> TRUE, tok |-> t]
Raw(t) == [present |-> TRUE, bearer |-> FALSE, tok |-> t]

\* the headers of requests that carry a token login has signed and that has
\* not expired
GoodHeaders == { Bearer(sign(u)) : u \in issued }

\* what a client can send: nothing, "Bearer " alone, garbage, or a token login
\* has signed, expired by now or not, with the "Bearer " prefix or without it
Headers ==
  { NoHeader, Bearer(EmptyTok), Bearer(Garbage), Raw(Garbage) }
    \cup { Bearer([userId |-> u, st |-> "expired"]) : u \in issued }
    \cup { Raw(sign(u)) : u \in issued }
    \cup GoodHeaders

Idle == [kind |-> "idle", hdr |-> NoHeader, userId |-> 0, username |-> "", email |-> "",
         password |-> "", doc |-> <<>>, ids |-> <<>>, i |-> 0]

NoResp == [kind |-> "none", status |-> 0, hdr |-> NoHeader, email |-> "", password |-> "",
           tokens |-> {}, users |-> {}, recipes |-> <<>>, ids |-> <<>>]

\* a response, with the parts of the request it answers that the properties
\* below refer to (header, credentials, ids)
Resp(kind, status, h) == [NoResp EXCEPT !.kind = kind, !.status = status, !.hdr = h]
Cred(resp, email, password) == [resp EXCEPT !.email = email, !.password = password]

Quiescent == \A s \in Slots : inflight[s].kind = "idle"

\* a new request takes the first free slot (which one is not observable)
Free(s) == inflight[s].kind = "idle" /\ \A t \in 1..(s - 1) : inflight[t].kind # "idle"

\* req.header("Authorization")?.replace("Bearer ", "") : the prefix is dropped
\* when it is there, a header without it is taken as the token itself
bearerToken(h) == IF h.present THEN h.tok ELSE EmptyTok

\* a slip: the token is decoded but its expiry is not checked
authMiddleware_ignoreExpiry(h) ==
  LET token == bearerToken(h)
  IN  IF token.st = "empty" THEN [ok |-> FALSE, status |-> 401, userId |-> 0]
      ELSE IF token.st \in {"ok", "expired"}
      THEN [ok |-> TRUE, status |-> 0, userId |-> token.userId]
      ELSE [ok |-> FALSE, status |-> 401, userId |-> 0]

authMiddleware_index(h) ==
  LET token == bearerToken(h)
  IN  IF token.st = "empty" THEN [ok |-> FALSE, status |-> 401, userId |-> 0]
      ELSE IF verify(token) THEN [ok |-> TRUE, status |-> 0, userId |-> token.userId]
      ELSE [ok |-> FALSE, status |-> 401, userId |-> 0]

authMiddleware_part(h) ==
  LET token == bearerToken(h)
  IN  IF token.st = "empty" THEN [ok |-> FALSE, status |-> 401, userId |-> 0]
      ELSE IF verify(token) THEN [ok |-> TRUE, status |-> 0, userId |-> token.userId]
      ELSE [ok |-> FALSE, status |-> 400, userId |-> 0]

authMiddleware(h) ==
  IF variant = "index.js" THEN authMiddleware_index(h) ELSE authMiddleware_part(h)

\* ------------------------------------------------------------------- User
\* userSchema: username and email carry a unique index
userSchema(id, username, email, hashed) ==
  [_id |-> id, username |-> username, email |-> email,
   password |-> hashed, savedRecipes |-> <<>>]

\* what makes newUser.save() throw (E11000 duplicate key)
UniqueViolation(username, email) ==
  \E k \in 1..Len(users) : users[k].username = username \/ users[k].email = email

\* User.findOne({ email }): the matching users (the first one is returned)
findOneByEmail(email) == { k \in 1..Len(users) : users[k].email = email }

FirstOf(S) == CHOOSE k \in S : \A j \in S : k <= j

\* User.findByIdAndUpdate(userId, { $push: { savedRecipes: id } })
push(userId, id) ==
  [users EXCEPT ![userId].savedRecipes = Append(@, id)]

\* User.findByIdAndUpdate(userId, { $pull: { savedRecipes: id } })
pull(userId, id) ==
  [users EXCEPT ![userId].savedRecipes = SelectSeq(@, LAMBDA x : x # id)]

\* ------------------------------------------------------------ SavedRecipe
\* what makes savedRecipe.save() throw (required paths, the category enum)
Valid(p) ==
  /\ p.recipeId # Missing /\ p.title # Missing /\ p.image # Missing
  /\ p.category \in {"breakfast", "lunch", "dinner"}

\* savedRecipeSchema of index.js: the record carries its owner
savedRecipeSchema_index(id, userId, p) ==
  [_id |-> id, userId |-> userId, recipeId |-> p.recipeId, title |-> p.title,
   image |-> p.image, category |-> p.category, position |-> 0]

\* savedRecipeSchema of part_000: no userId path
savedRecipeSchema_part(id, p) ==
  [_id |-> id, recipeId |-> p.recipeId, title |-> p.title,
   image |-> p.image, category |-> p.category, position |-> 0]

Exists(id) == \E k \in 1..Len(recipes) : recipes[k]._id = id
DocOf(id) == recipes[CHOOSE k \in 1..Len(recipes) : recipes[k]._id = id]

\* a slip: the filter is lost and every record is updated
findByIdAndUpdate_noFilter(id, position) ==
  [k \in 1..Len(recipes) |-> [recipes[k] EXCEPT !.position = position]]

\* a slip: positions counted from 1
findByIdAndUpdate_fromOne(id, position) ==
  [k \in 1..Len(recipes) |->
     IF recipes[k]._id = id THEN [recipes[k] EXCEPT !.position = position + 1] ELSE recipes[k]]

\* SavedRecipe.findByIdAndUpdate(id, { position }): no match, no change
findByIdAndUpdate(id, position) ==
  [k \in 1..Len(recipes) |->
     IF recipes[k]._id = id THEN [recipes[k] EXCEPT !.position = position] ELSE recipes[k]]

\* SavedRecipe.findByIdAndDelete(id)
findByIdAndDelete(id) == SelectSeq(recipes, LAMBDA d : d._id # id)

\* the record SavedRecipe.findOneAndDelete({ _id: id, userId }) matches, if any
findOneAndDelete(id, userId) ==
  { k \in 1..Len(recipes) : recipes[k]._id = id /\ recipes[k].userId = userId }

\* ids a client may put in a URL or a body: the id of a record a response has
\* shown (ids are generated by the store, a record whose save has not answered
\* yet is not known), a well-formed ObjectId of no record (MaxDocs + 1), or a
\* string that is not an ObjectId (0)
IsObjectId(id) == id >= 1
NoSuchId == MaxDocs + 1
KnownIds ==
  { id \in 1..made :
      \A s \in Slots : ~(inflight[s].kind = "save" /\ inflight[s].doc[1]._id = id) }
ClientIds == {0, NoSuchId} \cup KnownIds
IdLists == SeqsUpTo(ClientIds, MaxIds)

\* ------------------------------------------------------- POST /register
PendingRegisters == Cardinality({ s \in Slots : inflight[s].kind = "register" })

\* index.js: validation and `await User.findOne({ email })`
RegisterIndex(s, username, email, password) ==
  /\ variant = "index.js"
  /\ Free(s)
  /\ Len(users) + PendingRegisters < MaxUsers
  /\ IF username = Missing \/ email = Missing \/ password = Missing
     THEN /\ lastResp' = Cred(Resp("register", 400, NoHeader), email, password)
          /\ UNCHANGED inflight
     ELSE IF findOneByEmail(email) # {}
     THEN /\ lastResp' = Cred(Resp("register", 400, NoHeader), email, password)
          /\ UNCHANGED inflight
     ELSE /\ inflight' = [inflight EXCEPT ![s] =
               [Idle EXCEPT !.kind = "register", !.username = username,
                            !.email = email, !.password = password]]
          /\ lastResp' = NoResp
  /\ UNCHANGED <<variant, users, recipes, made, issued>>

\* index.js: the continuation, bcrypt.hash and `await newUser.save()`
RegisterSaveIndex(s) ==
  /\ inflight[s].kind = "register"
  /\ LET r == inflight[s]
     IN  IF UniqueViolation(r.username, r.email)
         THEN /\ lastResp' = Cred(Resp("register", 500, NoHeader), r.email, r.password)
              /\ UNCHANGED users
         ELSE /\ users' = Append(users, userSchema(Len(users) + 1, r.username, r.email, hash(r.password)))
              /\ lastResp' = Cred(Resp("register", 201, NoHeader), r.email, r.password)
  /\ inflight' = [inflight EXCEPT ![s] = Idle]
  /\ UNCHANGED <<variant, recipes, made, issued>>

\* part_000: no look-up, the unique index alone refuses a second email
RegisterPart(username, email, password) ==
  /\ variant = "part_000"
  /\ Len(users) < MaxUsers
  /\ IF username = Missing \/ email = Missing \/ password = Missing
     THEN /\ lastResp' = Cred(Resp("register", 400, NoHeader), email, password)
          /\ UNCHANGED users
     ELSE IF UniqueViolation(username, email)
     THEN /\ lastResp' = Cred(Resp("register", 500, NoHeader), email, password)
          /\ UNCHANGED users
     ELSE LET savedUser == userSchema(Len(users) + 1, username, email, hash(password))
          IN  /\ users' = Append(users, savedUser)
              /\ lastResp' = Cred([Resp("register", 201, NoHeader) EXCEPT !.users = {savedUser}], email, password)
  /\ UNCHANGED <<variant, recipes, made, inflight, issued>>

\* ---------------------------------------------------------- POST /login
\* a slip: the result of bcrypt.compare is not looked at
Login_noCompare(email, password) ==
  /\ IF email = Missing \/ password = Missing
     THEN /\ lastResp' = Cred(Resp("login", 400, NoHeader), email, password)
          /\ UNCHANGED issued
     ELSE IF findOneByEmail(email) = {}
     THEN /\ lastResp' = Cred(Resp("login", 404, NoHeader), email, password)
          /\ UNCHANGED issued
     ELSE LET foundUser == users[FirstOf(findOneByEmail(email))]
          IN  /\ lastResp' = Cred([Resp("login", 200, NoHeader) EXCEPT
                                     !.tokens = {sign(foundUser._id)},
                                     !.users = {foundUser}], email, password)
              /\ issued' = issued \cup {foundUser._id}
  /\ UNCHANGED <<variant, users, recipes, made, inflight>>

Login(email, password) ==
  /\ IF email = Missing \/ password = Missing
     THEN /\ lastResp' = Cred(Resp("login", 400, NoHeader), email, password)
          /\ UNCHANGED issued
     ELSE IF findOneByEmail(email) = {}
     THEN /\ lastResp' = Cred(Resp("login", 404, NoHeader), email, password)
          /\ UNCHANGED issued
     ELSE LET foundUser == users[FirstOf(findOneByEmail(email))]
          IN  IF ~compare(password, foundUser.password)
              THEN /\ lastResp' = Cred(Resp("login", 401, NoHeader), email, password)
                   /\ UNCHANGED issued
              ELSE /\ lastResp' = Cred([Resp("login", 200, NoHeader) EXCEPT
                                     !.tokens = {sign(foundUser._id)},
                                     !.users = {foundUser}], email, password)
                   /\ issued' = issued \cup {foundUser._id}
  /\ UNCHANGED <<variant, users, recipes, made, inflight>>

\* ---------------------------------------------------- POST /recipes/save
\* authMiddleware, `new SavedRecipe(...)` and `await savedRecipe.save()`
SaveRecipe(s, h, p) ==
  /\ Free(s)
  /\ made < MaxDocs
  /\ LET a == authMiddleware(h)
         savedRecipe == IF variant = "index.js"
                        THEN savedRecipeSchema_index(made + 1, a.userId, p)
                        ELSE savedRecipeSchema_part(made + 1, p)
     IN  IF ~a.ok
         THEN /\ lastResp' = Resp("save", a.status, h)
              /\ UNCHANGED <<recipes, made, inflight>>
         ELSE IF ~Valid(p)
         THEN /\ lastResp' = Resp("save", 500, h)
              /\ UNCHANGED <<recipes, made, inflight>>
         ELSE /\ recipes' = Append(recipes, savedRecipe)
              /\ made' = made + 1
              /\ inflight' = [inflight EXCEPT ![s] =
                   [Idle EXCEPT !.kind = "save", !.hdr = h, !.userId = a.userId,
                                !.doc = <<savedRecipe>>]]
              /\ lastResp' = NoResp
  /\ UNCHANGED <<variant, users, issued>>

\* the continuation: `await User.findByIdAndUpdate(userId, { $push })`, then
\* 201 with the record as the handler built it
SavePush(s) ==
  /\ inflight[s].kind = "save"
  /\ LET r == inflight[s]
         savedRecipe == r.doc[1]
     IN  /\ users' = push(r.userId, savedRecipe._id)
         /\ lastResp' = [Resp("save", 201, r.hdr) EXCEPT !.recipes = <<savedRecipe>>]
  /\ inflight' = [inflight EXCEPT ![s] = Idle]
  /\ UNCHANGED <<variant, recipes, made, issued>>

\* ---------------------------------------------------- GET /recipes/saved
\* index.js: SavedRecipe.find({ userId })
find(userId) == SelectSeq(recipes, LAMBDA d : d.userId = userId)

\* part_000: User.findById(userId).populate("savedRecipes"): the records the
\* list refers to, in list order; a reference to a record that is gone is dropped
populate(userId) ==
  LET present == SelectSeq(users[userId].savedRecipes, Exists)
  IN  [k \in 1..Len(present) |-> DocOf(present[k])]

ListOf(userId) == IF variant = "index.js" THEN find(userId) ELSE populate(userId)

GetSaved(h) ==
  /\ LET a == authMiddleware(h)
     IN  IF ~a.ok
         THEN lastResp' = Resp("list", a.status, h)
         ELSE lastResp' = [Resp("list", 200, h) EXCEPT !.recipes = ListOf(a.userId)]
  /\ UNCHANGED <<variant, users, recipes, made, inflight, issued>>

\* --------------------------------------------------- PUT /recipes/reorder
\* authMiddleware and the loop header; hasList = FALSE: the body has no
\* `recipes` array and recipes.length throws
ReorderStart(s, h, hasList, ids) ==
  /\ Free(s)
  /\ LET a == authMiddleware(h)
     IN  IF ~a.ok
         THEN /\ lastResp' = Resp("reorder", a.status, h)
              /\ UNCHANGED inflight
         ELSE IF ~hasList
         THEN /\ lastResp' = Resp("reorder", 500, h)
              /\ UNCHANGED inflight
         ELSE IF Len(ids) = 0
         THEN /\ lastResp' = Resp("reorder", 200, h)
              /\ UNCHANGED inflight
         ELSE /\ lastResp' = NoResp
              /\ inflight' = [inflight EXCEPT ![s] =
                   [Idle EXCEPT !.kind = "reorder", !.hdr = h, !.userId = a.userId,
                                !.ids = ids, !.i = 0]]
  /\ UNCHANGED <<variant, users, recipes, made, issued>>

\* one iteration: `await SavedRecipe.findByIdAndUpdate(recipes[i], { position: i })`;
\* an id that is not an ObjectId makes the call throw (catch: 500)
ReorderStep(s) ==
  /\ inflight[s].kind = "reorder"
  /\ LET r == inflight[s]
         id == r.ids[r.i + 1]
     IN  IF ~IsObjectId(id)
         THEN /\ lastResp' = [Resp("reorder", 500, r.hdr) EXCEPT !.ids = r.ids]
              /\ inflight' = [inflight EXCEPT ![s] = Idle]
              /\ UNCHANGED recipes
         ELSE /\ recipes' = findByIdAndUpdate(id, r.i)
              /\ IF r.i + 1 < Len(r.ids)
                 THEN /\ inflight' = [inflight EXCEPT ![s].i = r.i + 1]
                      /\ lastResp' = NoResp
                 ELSE /\ inflight' = [inflight EXCEPT ![s] = Idle]
                      /\ lastResp' = [Resp("reorder", 200, r.hdr) EXCEPT !.ids = r.ids]
  /\ UNCHANGED <<variant, users, made, issued>>

\* ---------------------------------------------------- DELETE /recipes/:id
\* index.js: `await SavedRecipe.findOneAndDelete({ _id: recipeId, userId })`
RemoveIndex(s, h, id) ==
  /\ variant = "index.js"
  /\ Free(s)
  /\ LET a == authMiddleware(h)
     IN  IF ~a.ok
         THEN /\ lastResp' = Resp("remove", a.status, h)
              /\ UNCHANGED <<recipes, inflight>>
         ELSE IF ~IsObjectId(id)
         THEN /\ lastResp' = [Resp("remove", 500, h) EXCEPT !.ids = <<id>>]
              /\ UNCHANGED <<recipes, inflight>>
         ELSE IF findOneAndDelete(id, a.userId) = {}
         THEN /\ lastResp' = [Resp("remove", 404, h) EXCEPT !.ids = <<id>>]
              /\ UNCHANGED <<recipes, inflight>>
         ELSE /\ recipes' = findByIdAndDelete(id)
              /\ inflight' = [inflight EXCEPT ![s] =
                   [Idle EXCEPT !.kind = "remove", !.hdr = h, !.userId = a.userId,
                                !.ids = <<id>>]]
              /\ lastResp' = NoResp
  /\ UNCHANGED <<variant, users, made, issued>>

\* part_000: `await SavedRecipe.findByIdAndDelete(recipeId)`, whoever owns it
RemovePart(s, h, id) ==
  /\ variant = "part_000"
  /\ Free(s)
  /\ LET a == authMiddleware(h)
     IN  IF ~a.ok
         THEN /\ lastResp' = Resp("remove", a.status, h)
              /\ UNCHANGED <<recipes, inflight>>
         ELSE IF ~IsObjectId(id)
         THEN /\ lastResp' = [Resp("remove", 500, h) EXCEPT !.ids = <<id>>]
              /\ UNCHANGED <<recipes, inflight>>
         ELSE /\ recipes' = findByIdAndDelete(id)
              /\ inflight' = [inflight EXCEPT ![s] =
                   [Idle EXCEPT !.kind = "remove", !.hdr = h, !.userId = a.userId,
                                !.ids = <<id>>]]
              /\ lastResp' = NoResp
  /\ UNCHANGED <<variant, users, made, issued>>

\* the continuation: `await User.findByIdAndUpdate(userId, { $pull })`, then 200
RemovePull(s) ==
  /\ inflight[s].kind = "remove"
  /\ LET r == inflight[s]
     IN  /\ users' = pull(r.userId, r.ids[1])
         /\ lastResp' = [Resp("remove", 200, r.hdr) EXCEPT !.ids = r.ids]
  /\ inflight' = [inflight EXCEPT ![s] = Idle]
  /\ UNCHANGED <<variant, recipes, made, issued>>

\* --------------------------------------------------------------- history
\* regOK: a registration answered 201, with the id of the user it created
Registered ==
  regOK' = IF lastResp'.kind = "register" /\ lastResp'.status = 201
           THEN regOK \cup { [email |-> lastResp'.email, password |-> lastResp'.password,
                              id |-> Len(users')] }
           ELSE regOK

\* the fields a save request gives, with the id of the record
Fields(d) ==
  [_id |-> d._id, recipeId |-> d.recipeId, title |-> d.title,
   image |-> d.image, category |-> d.category]

\* kept: a save of the slot's user answered 201 / a remove answered 200
KeepSaved(s) ==
  kept' = [kept EXCEPT ![inflight[s].userId] = @ \cup {Fields(inflight[s].doc[1])}]
KeepRemoved(s) ==
  kept' = [kept EXCEPT ![inflight[s].userId] = { f \in @ : f._id # inflight[s].ids[1] }]

\* hist: a reorder request that starts when nothing is in flight opens a new
\* group, one that starts while another is in flight joins the group
NoHist == [lists |-> {}, n |-> 0]
Joined(ids) ==
  hist' = IF Quiescent THEN [lists |-> {ids}, n |-> 1]
          ELSE [lists |-> hist.lists \cup {ids}, n |-> IF hist.n < 2 THEN hist.n + 1 ELSE 2]

\* ------------------------------------------------------------- the system
Init ==
  /\ variant \in Variants
  /\ users = <<>>
  /\ recipes = <<>>
  /\ made = 0
  /\ inflight = [s \in Slots |-> Idle]
  /\ issued = {}
  /\ lastResp = NoResp
  /\ regOK = {}
  /\ kept = [u \in 1..MaxUsers |-> {}]
  /\ hist = NoHist

NextAuth ==
  \/ \E s \in Slots, un \in Usernames \cup {Missing}, em \in Emails \cup {Missing},
        pw \in Passwords \cup {Missing} :
       RegisterIndex(s, un, em, pw) /\ UNCHANGED history
  \/ \E s \in Slots : RegisterSaveIndex(s) /\ Registered /\ UNCHANGED <<kept, hist>>
  \/ \E un \in Usernames \cup {Missing}, em \in Emails \cup {Missing},
        pw \in Passwords \cup {Missing} :
       RegisterPart(un, em, pw) /\ Registered /\ UNCHANGED <<kept, hist>>
  \/ \E em \in Emails \cup {Missing}, pw \in Passwords \cup {Missing} :
       Login(em, pw) /\ UNCHANGED history

NextRecipes ==
  \/ \E s \in Slots, h \in Headers, p \in Payloads :
       SaveRecipe(s, h, p) /\ UNCHANGED history
  \/ \E s \in Slots : SavePush(s) /\ KeepSaved(s) /\ UNCHANGED <<regOK, hist>>
  \/ \E h \in Headers : GetSaved(h) /\ UNCHANGED history
  \/ \E s \in Slots, h \in Headers, hasList \in BOOLEAN :
       \E ids \in IF hasList THEN IdLists ELSE { <<>> } :
         ReorderStart(s, h, hasList, ids) /\ UNCHANGED history
  \/ \E s \in Slots : ReorderStep(s) /\ UNCHANGED history
  \/ \E s \in Slots, h \in Headers, id \in ClientIds :
       RemoveIndex(s, h, id) /\ UNCHANGED history
  \/ \E s \in Slots, h \in Headers, id \in ClientIds :
       RemovePart(s, h, id) /\ UNCHANGED history
  \/ \E s \in Slots : RemovePull(s) /\ KeepRemoved(s) /\ UNCHANGED <<regOK, hist>>

\* the whole server, from an empty database
Next == NextAuth \/ NextRecipes
Spec == Init /\ [][Next]_vars

\* registration and login alone, from an empty database
SpecAuth == Init /\ [][NextAuth]_vars

\* ========================================================== POST /register
NoTwoShareEmail ==
  \A j, k \in 1..Len(users) : users[j].email = users[k].email => j = k

\* C4: no two stored users share an email, and a register request with an
\* email for which an earlier register was answered 201 is answered 400 or 409
\* and stores no user
C4_DuplicateEmailRefused ==
  [][ /\ NoTwoShareEmail'
      /\ (lastResp'.kind = "register" /\ \E r \in regOK : r.email = lastResp'.email)
           => (lastResp'.status \in {400, 409} /\ users' = users) ]_vars

\* ============================================================= POST /login
LoginGiven == lastResp.kind = "login" /\ lastResp.email # Missing /\ lastResp.password # Missing

\* C6: after a register answered 201, a login with its email and password is
\* answered 200 with a token that verifies and carries the id of the user the
\* register created; with its email and another password, 401; with an email
\* no user has, 404; and a login not answered 200 carries no token
C6_LoginAfterRegister ==
  LoginGiven =>
    /\ \A r \in regOK :
         r.email = lastResp.email =>
           IF r.password = lastResp.password
           THEN /\ lastResp.status = 200
                /\ lastResp.tokens # {}
                /\ \A t \in lastResp.tokens : verify(t) /\ t.userId = r.id
           ELSE lastResp.status = 401
    /\ (\A k \in 1..Len(users) : users[k].email # lastResp.email) => lastResp.status = 404
    /\ lastResp.status # 200 => lastResp.tokens = {}

C6_Witness ==
  /\ LoginGiven /\ lastResp.status = 200
  /\ \E r \in regOK : r.email = lastResp.email /\ r.password = lastResp.password
                      /\ lastResp.tokens = {sign(r.id)}

\* C7: no response carries a user object that has a password field
C7_NoPasswordInResponses ==
  \A u \in lastResp.users : "password" \notin DOMAIN u

\* ============================================================== the recipes
\* two users have registered and logged in (a state SpecAuth reaches), no
\* recipe is saved yet
InitR ==
  /\ variant \in Variants
  /\ users = << userSchema(1, "a", "a@x.com", hash("pw")),
                userSchema(2, "b", "b@x.com", hash("pw")) >>
  /\ recipes = <<>>
  /\ made = 0
  /\ inflight = [s \in Slots |-> Idle]
  /\ issued = {1, 2}
  /\ lastResp = NoResp
  /\ regOK = { [email |-> "a@x.com", password |-> "pw", id |-> 1],
               [email |-> "b@x.com", password |-> "pw", id |-> 2] }
  /\ kept = [u \in 1..MaxUsers |-> {}]
  /\ hist = NoHist

\* save, list and remove requests of logged-in users, overlapping in time
NextSaved ==
  \/ \E s \in Slots, h \in GoodHeaders, p \in Payloads :
       SaveRecipe(s, h, p) /\ UNCHANGED history
  \/ \E s \in Slots : SavePush(s) /\ KeepSaved(s) /\ UNCHANGED <<regOK, hist>>
  \/ \E h \in GoodHeaders : GetSaved(h) /\ UNCHANGED history
  \/ \E s \in Slots, h \in GoodHeaders, id \in ClientIds :
       RemoveIndex(s, h, id) /\ UNCHANGED history
  \/ \E s \in Slots, h \in GoodHeaders, id \in ClientIds :
       RemovePart(s, h, id) /\ UNCHANGED history
  \/ \E s \in Slots : RemovePull(s) /\ KeepRemoved(s) /\ UNCHANGED <<regOK, hist>>

SpecSaved == InitR /\ [][NextSaved]_vars

\* who a record belongs to: its userId in index.js, the user whose
\* savedRecipes list refers to it in part_000
Owns(u, id) ==
  IF variant = "index.js"
  THEN Exists(id) /\ DocOf(id).userId = u
  ELSE \E k \in 1..Len(users[u].savedRecipes) : users[u].savedRecipes[k] = id

Gone(id) == \A k \in 1..Len(recipes) : recipes[k]._id # id

\* C2: a remove request of user u for a (well-formed) id deletes the record
\* if it exists and belongs to u; otherwise it is answered 404 and changes
\* neither store
C2_RemoveOnlyOwn ==
  [][ \A s \in Slots, h \in GoodHeaders, id \in ClientIds :
        (IsObjectId(id) /\ (RemoveIndex(s, h, id) \/ RemovePart(s, h, id))) =>
          IF Exists(id) /\ Owns(authMiddleware(h).userId, id)
          THEN Gone(id)'
          ELSE /\ lastResp'.kind = "remove" /\ lastResp'.status = 404
               /\ UNCHANGED <<users, recipes>> ]_vars

\* C3: every id in a user's savedRecipes list is the id of a stored record
C3_NoDanglingReference ==
  \A u \in 1..Len(users) :
    \A k \in 1..Len(users[u].savedRecipes) : Exists(users[u].savedRecipes[k])

Range(q) == { q[k] : k \in 1..Len(q) }

\* C8: when no request is in flight, the list of user u is exactly the
\* records u saved and has not removed, with the fields given at save
C8_ListIsSavedMinusRemoved ==
  Quiescent =>
    \A u \in 1..Len(users) : { Fields(d) : d \in Range(ListOf(u)) } = kept[u]

\* ------------------------------------------------- one request at a time
\* all four protected routes, requests of logged-in users, each answered
\* before the next arrives
NextSeq ==
  \/ \E h \in GoodHeaders, p \in Payloads : SaveRecipe(1, h, p) /\ UNCHANGED history
  \/ SavePush(1) /\ UNCHANGED history
  \/ \E h \in GoodHeaders : (Quiescent /\ GetSaved(h)) /\ UNCHANGED history
  \/ \E h \in GoodHeaders, hasList \in BOOLEAN :
       \E ids \in IF hasList THEN IdLists ELSE { <<>> } :
         ReorderStart(1, h, hasList, ids) /\ UNCHANGED history
  \/ ReorderStep(1) /\ UNCHANGED history
  \/ \E h \in GoodHeaders, id \in ClientIds : RemoveIndex(1, h, id) /\ UNCHANGED history
  \/ \E h \in GoodHeaders, id \in ClientIds : RemovePart(1, h, id) /\ UNCHANGED history
  \/ RemovePull(1) /\ UNCHANGED history

SpecSeq == InitR /\ [][NextSeq]_vars

\* C1: a step of a reorder request of user u leaves every record that does
\* not belong to u as it is
C1_ReorderOnlyOwn ==
  [][ \A s \in Slots :
        ReorderStep(s) =>
          \A k \in 1..Len(recipes) :
            ~Owns(inflight[s].userId, recipes[k]._id) => recipes'[k] = recipes[k] ]_vars

ReorderDone == lastResp.kind = "reorder" /\ lastResp.status = 200

\* C9 as stated: after a reorder request that ran alone is answered 200, every
\* record named in ids has as position its index in ids (from 0)
C9_PositionIsIndex ==
  ReorderDone =>
    \A i \in 1..Len(lastResp.ids) :
      Exists(lastResp.ids[i]) => DocOf(lastResp.ids[i]).position = i - 1

LastIndexOf(ids, id) == CHOOSE i \in 1..Len(ids) : ids[i] = id /\ \A j \in (i + 1)..Len(ids) : ids[j] # id

\* C9 as amended: every record named in ids has as position the index (from 0)
\* of the last place ids names it; so when ids names no record twice, the
\* records it names sort by position in the order of ids
C9_PositionIsLastIndex ==
  ReorderDone =>
    LET ids == lastResp.ids
    IN  /\ \A id \in Range(ids) :
             Exists(id) => DocOf(id).position = LastIndexOf(ids, id) - 1
        /\ (\A i, j \in 1..Len(ids) : ids[i] = ids[j] => i = j) =>
             \A i, j \in 1..Len(ids) :
               (i < j /\ Exists(ids[i]) /\ Exists(ids[j])) =>
                 DocOf(ids[i]).position < DocOf(ids[j]).position

\* a reorder of [r2, r1] by their owner has put r2 before r1
C9_Witness ==
  /\ ReorderDone /\ lastResp.ids = <<2, 1>>
  /\ Exists(1) /\ Exists(2)
  /\ DocOf(2).position = 0 /\ DocOf(1).position = 1
  /\ \E u \in 1..Len(users) : Owns(u, 1) /\ Owns(u, 2) /\ lastResp.hdr = Bearer(sign(u))

\* ------------------------------------------------------ the guarded routes
\* all four protected routes, one request at a time, with every header a
\* client can send; the bodies name records that exist or existed
NextGuard ==
  \/ \E h \in Headers, p \in {Soup, Tea} : SaveRecipe(1, h, p) /\ UNCHANGED history
  \/ SavePush(1) /\ UNCHANGED history
  \/ \E h \in Headers : GetSaved(h) /\ UNCHANGED history
  \/ \E h \in Headers, hasList \in BOOLEAN :
       \E ids \in IF hasList THEN SeqsUpTo(KnownIds, MaxIds) ELSE { <<>> } :
         ReorderStart(1, h, hasList, ids) /\ UNCHANGED history
  \/ ReorderStep(1) /\ UNCHANGED history
  \/ \E h \in Headers, id \in KnownIds : RemoveIndex(1, h, id) /\ UNCHANGED history
  \/ \E h \in Headers, id \in KnownIds : RemovePart(1, h, id) /\ UNCHANGED history
  \/ RemovePull(1) /\ UNCHANGED history

SpecGuard == InitR /\ [][NextGuard]_vars

Protected == {"save", "list", "reorder", "remove"}
NoAuthorization(h) == ~h.present
BadToken(h) == h.present /\ h.tok.st \in {"malformed", "expired"}

\* C5: a request to a protected route with no Authorization header is answered
\* 401, one with a malformed or expired token 401 or 400; neither changes a
\* store, and no handler is ever suspended on behalf of such a request
C5_GuardedRoutes ==
  [][ /\ (lastResp'.kind \in Protected /\ NoAuthorization(lastResp'.hdr)) =>
           (lastResp'.status = 401 /\ UNCHANGED stores)
      /\ (lastResp'.kind \in Protected /\ BadToken(lastResp'.hdr)) =>
           (lastResp'.status \in {400, 401} /\ UNCHANGED stores)
      /\ \A s \in Slots :
           inflight'[s].kind \in Protected =>
             ~NoAuthorization(inflight'[s].hdr) /\ ~BadToken(inflight'[s].hdr) ]_vars

\* an expired token was refused on the remove route while a record was stored
C5_Witness ==
  /\ lastResp.kind = "remove" /\ lastResp.hdr.tok.st = "expired"
  /\ lastResp.status \in {400, 401}
  /\ recipes # <<>>

\* ------------------------------------------------- overlapping reorders
OwnedBy(u) == { id \in 1..made : Exists(id) /\ Owns(u, id) }

\* the lists that name every element of S exactly once
Perms(S) == { q \in SeqsUpTo(S, MaxIds) : Len(q) = Cardinality(S) /\ Range(q) = S }

\* every record the bound allows has been saved, by one user or the other,
\* and every save has been answered (a state SpecSaved reaches)
InitOrder ==
  /\ variant \in Variants
  /\ made = MaxDocs
  /\ \E owner \in [1..MaxDocs -> 1..2] :
       /\ recipes = [k \in 1..MaxDocs |->
                       IF variant = "index.js"
                       THEN savedRecipeSchema_index(k, owner[k], Soup)
                       ELSE savedRecipeSchema_part(k, Soup)]
       /\ users = << [userSchema(1, "a", "a@x.com", hash("pw")) EXCEPT !.savedRecipes =
                        SelectSeq([k \in 1..MaxDocs |-> k], LAMBDA k : owner[k] = 1)],
                     [userSchema(2, "b", "b@x.com", hash("pw")) EXCEPT !.savedRecipes =
                        SelectSeq([k \in 1..MaxDocs |-> k], LAMBDA k : owner[k] = 2)] >>
       /\ kept = [u \in 1..MaxUsers |->
                    { Fields(recipes[k]) : k \in { j \in 1..MaxDocs : owner[j] = u } }]
  /\ inflight = [s \in Slots |-> Idle]
  /\ issued = {1, 2}
  /\ lastResp = NoResp
  /\ regOK = { [email |-> "a@x.com", password |-> "pw", id |-> 1],
               [email |-> "b@x.com", password |-> "pw", id |-> 2] }
  /\ hist = NoHist

\* reorder requests alone, overlapping in time, each naming every record of
\* some user exactly once
NextReorder ==
  \/ \E s \in Slots, h \in GoodHeaders, u \in 1..Len(users) :
       \E ids \in Perms(OwnedBy(u)) :
         /\ OwnedBy(u) # {}
         /\ ReorderStart(s, h, TRUE, ids) /\ Joined(ids) /\ UNCHANGED <<regOK, kept>>
  \/ \E s \in Slots : ReorderStep(s) /\ UNCHANGED history

SpecReorder == InitOrder /\ [][NextReorder]_vars

\* two or more reorder requests that each name every record of u exactly once
\* have overlapped, and all have been answered
GroupDone(u) ==
  /\ Quiescent /\ hist.n >= 2
  /\ OwnedBy(u) # {}
  /\ \A l \in hist.lists : l \in Perms(OwnedBy(u))

PositionIn(l, id) == (CHOOSE i \in 1..Len(l) : l[i] = id) - 1

\* C10 as stated: the positions of u's records are then pairwise distinct and
\* are the positions one of the requests assigns
C10_OrderOfOneRequest ==
  \A u \in 1..Len(users) :
    GroupDone(u) =>
      /\ \A c, d \in OwnedBy(u) : DocOf(c).position = DocOf(d).position => c = d
      /\ \E l \in hist.lists : \A d \in OwnedBy(u) : DocOf(d).position = PositionIn(l, d)

\* C10 as amended: the position of each record of u is then the position one
\* of the requests assigns to that record (not the same request for every
\* record, so two records may end with the same position)
C10_EachPositionOfSomeRequest ==
  \A u \in 1..Len(users) :
    GroupDone(u) =>
      \A d \in OwnedBy(u) : \E l \in hist.lists : DocOf(d).position = PositionIn(l, d)

\* the requests [r1, r2] and [r2, r1] overlapped and left both records at the
\* same position
C10_Witness ==
  \E u \in 1..Len(users) :
    /\ GroupDone(u)
    /\ hist.lists = { <<1, 2>>, <<2, 1>> }
    /\ DocOf(1).position = DocOf(2).position
====
